---- MODULE Spec2Model ----
(***************************************************************************)
(* Model of the price monitor of src/price_monitor_serper.py (the variants *)
(* price_monitor_with_web.py and price_monitor_simple.py share the alert   *)
(* evaluation line for line).                                              *)
(*                                                                         *)
(* Prices, band limits and thresholds are Python floats in the source.     *)
(* The model uses integer values on which the float arithmetic of the      *)
(* source is exact, so ((L - c) / L) * 100 >= t is decided by the integer  *)
(* comparison (L - c) * 100 >= t * L for L > 0.                            *)
(* Python's None and the empty list are both falsy and run_check only      *)
(* tests the truth value of `alerts`; both are modelled as << >>.          *)
(***************************************************************************)
EXTENDS Integers, Sequences, FiniteSets, TLC

(* ---------------------------------------------------------------------- *)
(* Bounds of the model                                                     *)
(* ---------------------------------------------------------------------- *)
MaxChecks == 3
MaxRows == 2
MaxOffers == 2

(* ---------------------------------------------------------------------- *)
(* Input domains                                                           *)
(* ---------------------------------------------------------------------- *)
\* prices an offer can carry: zero, two ordinary prices, one above 999999
Prices == {0, 80, 120, 1000000}

\* the prices below 999999
OrdinaryPrices == {0, 80, 120}

\* active rows of the sheet: name, target band, drop threshold
SheetRows ==
    { [name |-> "TV", price_min |-> 100, price_max |-> 150, drop_threshold |-> 25],
      [name |-> "tv", price_min |-> 0,   price_max |-> 100, drop_threshold |-> 0],
      [name |-> "pc", price_min |-> 0,   price_max |-> 0,   drop_threshold |-> 0 - 50] }

SeqsUpTo(S, n) == UNION { [1..k -> S] : k \in 0..n }

Sheets == SeqsUpTo(SheetRows, MaxRows)

\* the k-th offer of a batch is identified by its retailer "r<k>"
Retailer(k) == "r" \o ToString(k)

Batches ==
    { [k \in 1..Len(ps) |-> [retailer |-> Retailer(k), price |-> ps[k]]] :
        ps \in SeqsUpTo(Prices, MaxOffers) }

\* the batches of one offer at most with a price below 999999
SingleOfferBatches ==
    { [k \in 1..Len(ps) |-> [retailer |-> Retailer(k), price |-> ps[k]]] :
        ps \in SeqsUpTo(OrdinaryPrices, 1) }

\* the batches whose offers carry prices below 999999 only
OrdinaryBatches ==
    { batch \in Batches :
        \A k \in 1..Len(batch) : batch[k].price \in OrdinaryPrices }

(* ---------------------------------------------------------------------- *)
(* State                                                                   *)
(* ---------------------------------------------------------------------- *)
VARIABLES
    price_history,   \* self.price_history: key -> [lowest, last_alert]
    monitor_status,  \* the global status dictionary: running, total_checks,
                     \* alerts_sent, last_check and next_check (a timestamp
                     \* is the number of the cycle that set it, 0 for None)
    pc,              \* position of the monitor thread
    frame,           \* the call of run_check in run: "initial" or "loop"
    sheet_error,     \* read_google_sheet of the last cycle took its handler
    error_event,     \* send_error_alert of the last cycle: "", "sheet" or
                     \* "unexpected"
    search_error,    \* the search of the current product took its handler
    posts,           \* webhook posts of send_discord_alert for the current
                     \* product: [type, ok] in the order made
    in_band_alerts,  \* key -> consecutive evaluations, up to now, with the
                     \*        minimum in the band that each emitted an alert
    products,        \* run_check: the products of the list still to process,
                     \*            the current one first
    results,         \* run_check: offers returned by the search
    alerts,          \* run_check: value returned by check_price_alerts
    error,           \* exception caught by the per-product handler, "" if none
    old_history,     \* price_history as it was when the last evaluation began
    observed_min,    \* key -> min(999999, batch minima evaluated so far)
    emitted_last,    \* key -> alert types emitted and not yet followed by
                     \*        an evaluation emitting the other type
    request          \* route of the dashboard request served last, "" if
                     \* none was served yet

vars == << price_history, monitor_status, pc, frame, sheet_error, error_event,
           search_error, posts, in_band_alerts, products, results, alerts,
           error, old_history, observed_min, emitted_last, request >>

Sentinel == 999999

Keys == {"tv", "pc"}

\* the key taken from the name as written, without str.lower()
lower_skipped(name) == name

\* str.lower() on the names of the model
lower(name) == IF name = "TV" THEN "tv" ELSE name

NoEntry == [lowest |-> Sentinel, last_alert |-> ""]

\* the state entry of a key, the initial sentinel state when there is none
StateOf(h, key) == IF key \in DOMAIN h THEN h[key] ELSE NoEntry

(* ---------------------------------------------------------------------- *)
(* read_google_sheet: rows -> product dicts with the state snapshot        *)
(* ---------------------------------------------------------------------- *)
load_product(row) ==
    LET product_key == lower(row.name) IN
    [ name            |-> row.name,
      price_min       |-> row.price_min,
      price_max       |-> row.price_max,
      drop_threshold  |-> row.drop_threshold,
      lowest_price    |-> IF product_key \in DOMAIN price_history
                          THEN price_history[product_key].lowest
                          ELSE Sentinel,
      last_alert_type |-> IF product_key \in DOMAIN price_history
                          THEN price_history[product_key].last_alert
                          ELSE "" ]

read_google_sheet(sheet) == [k \in 1..Len(sheet) |-> load_product(sheet[k])]

(* ---------------------------------------------------------------------- *)
(* check_price_alerts                                                      *)
(* ---------------------------------------------------------------------- *)
\* lowest_result taking the last offer with the least price
lowest_result_last(current_results) ==
    LET k == CHOOSE k \in 1..Len(current_results) :
                 /\ \A j \in 1..Len(current_results) :
                        current_results[k].price <= current_results[j].price
                 /\ \A j \in (k + 1)..Len(current_results) :
                        current_results[j].price > current_results[k].price
    IN current_results[k]

\* min(current_results, key=price): the first offer with the least price
lowest_result(current_results) ==
    LET k == CHOOSE k \in 1..Len(current_results) :
                 /\ \A j \in 1..Len(current_results) :
                        current_results[k].price <= current_results[j].price
                 /\ \A j \in 1..(k - 1) :
                        current_results[j].price > current_results[k].price
    IN current_results[k]

in_range(product, current_price) ==
    product.price_min <= current_price /\ current_price <= product.price_max

\* range_fires without the debounce on the last alert type
range_fires_every_time(product, current_price) ==
    in_range(product, current_price)

range_fires(product, current_price) ==
    in_range(product, current_price) /\ product.last_alert_type # "range"

\* the guard of the drop rule with <= in place of <
has_previous_or_sentinel(product) == product.lowest_price <= Sentinel

\* the guard of the drop rule
has_previous(product) == product.lowest_price < Sentinel

\* the division (lowest_price - current_price) / lowest_price
raises_ZeroDivisionError(product) ==
    has_previous(product) /\ product.lowest_price = 0

\* drop_percentage >= drop_threshold, for lowest_price > 0
drop_reached(product, current_price) ==
    (product.lowest_price - current_price) * 100
        >= product.drop_threshold * product.lowest_price

\* drop_fires without the debounce on the last alert type
drop_fires_every_time(product, current_price) ==
    /\ has_previous(product)
    /\ drop_reached(product, current_price)

drop_fires(product, current_price) ==
    /\ has_previous(product)
    /\ drop_reached(product, current_price)
    /\ product.last_alert_type # "drop"

range_alert(current_result) ==
    [ type          |-> "range",
      current_price |-> current_result.price,
      result        |-> current_result ]

\* drop_percentage is the float num / den
drop_alert(product, current_result) ==
    [ type            |-> "drop",
      current_price   |-> current_result.price,
      result          |-> current_result,
      previous_lowest |-> product.lowest_price,
      drop_percentage |->
          [ num |-> (product.lowest_price - current_result.price) * 100,
            den |-> product.lowest_price ] ]

\* new_alerts appending a range alert for every offer inside the band
new_alerts_per_offer(product, current_results) ==
    LET lowest == lowest_result(current_results)
        current_price == lowest.price
        RECURSIVE per_offer(_)
        per_offer(k) ==
            IF k > Len(current_results) THEN << >>
            ELSE (IF range_fires(product, current_results[k].price)
                  THEN << range_alert(current_results[k]) >> ELSE << >>)
                 \o per_offer(k + 1)
    IN  per_offer(1)
        \o
        (IF drop_fires(product, current_price)
         THEN << drop_alert(product, lowest) >> ELSE << >>)

new_alerts(product, current_results) ==
    LET lowest == lowest_result(current_results)
        current_price == lowest.price
    IN  (IF range_fires(product, current_price)
         THEN << range_alert(lowest) >> ELSE << >>)
        \o
        (IF drop_fires(product, current_price)
         THEN << drop_alert(product, lowest) >> ELSE << >>)

\* new_lowest never lowering the price of an existing entry
new_lowest_kept(h, product_key, current_price) ==
    IF product_key \notin DOMAIN h
    THEN current_price
    ELSE h[product_key].lowest

\* the lowest price kept for a key after observing current_price
new_lowest(h, product_key, current_price) ==
    IF product_key \notin DOMAIN h
    THEN current_price
    ELSE IF current_price < h[product_key].lowest
         THEN current_price
         ELSE h[product_key].lowest

\* new_last_alert remembering the last alert of the list, not the first
new_last_alert_of_last(h, product_key, found) ==
    IF found # << >>
    THEN found[Len(found)].type
    ELSE IF product_key \in DOMAIN h THEN h[product_key].last_alert ELSE ""

\* the last alert type kept for a key after an evaluation returning found
new_last_alert(h, product_key, found) ==
    IF found # << >>
    THEN found[1].type
    ELSE IF product_key \in DOMAIN h THEN h[product_key].last_alert ELSE ""

\* update_history rebuilding the dict with the entry of the product only
update_history_rebuilt(h, product, current_price, found) ==
    LET product_key == lower(product.name) IN
    [ key \in {product_key} |->
        [ lowest     |-> new_lowest(h, product_key, current_price),
          last_alert |-> new_last_alert(h, product_key, found) ] ]

update_history(h, product, current_price, found) ==
    LET product_key == lower(product.name) IN
    [ key \in DOMAIN h \cup {product_key} |->
        IF key = product_key
        THEN [ lowest     |-> new_lowest(h, product_key, current_price),
               last_alert |-> new_last_alert(h, product_key, found) ]
        ELSE h[key] ]

\* raised_outcome handing the range alert appended before the division to
\* the caller
raised_outcome_partial(h, product, current_results) ==
    [ raised  |-> TRUE,
      alerts  |-> IF range_fires(product, lowest_result(current_results).price)
                  THEN << range_alert(lowest_result(current_results)) >>
                  ELSE << >>,
      history |-> h ]

\* the division raises: the alerts appended so far are lost with the frame,
\* the update of the history is not reached and the handler of run_check
\* goes on with the next product
raised_outcome(h, product, current_results) ==
    [ raised |-> TRUE, alerts |-> << >>, history |-> h ]

\* check_price_alerts creating the state entry before the test for an empty
\* batch
check_price_alerts_entry_first(h, product, current_results) ==
    IF current_results = << >>
    THEN [ raised  |-> FALSE,
           alerts  |-> << >>,
           history |-> [ key \in DOMAIN h \cup {lower(product.name)} |->
                           IF key = lower(product.name)
                           THEN [ lowest     |-> StateOf(h, key).lowest,
                                  last_alert |-> "" ]
                           ELSE h[key] ] ]
    ELSE IF raises_ZeroDivisionError(product)
    THEN raised_outcome(h, product, current_results)
    ELSE LET found == new_alerts(product, current_results) IN
         [ raised  |-> FALSE,
           alerts  |-> found,
           history |-> update_history(h, product,
                           lowest_result(current_results).price, found) ]

\* the outcome of check_price_alerts(product, current_results) on history h
check_price_alerts(h, product, current_results) ==
    IF current_results = << >>
    THEN [ raised |-> FALSE, alerts |-> << >>, history |-> h ]
    ELSE IF raises_ZeroDivisionError(product)
    THEN raised_outcome(h, product, current_results)
    ELSE LET found == new_alerts(product, current_results) IN
         [ raised  |-> FALSE,
           alerts  |-> found,
           history |-> update_history(h, product,
                           lowest_result(current_results).price, found) ]

(* ---------------------------------------------------------------------- *)
(* Observers of the alert stream                                           *)
(* ---------------------------------------------------------------------- *)
Types(found) == { found[k].type : k \in 1..Len(found) }

Min(a, b) == IF a <= b THEN a ELSE b

\* alert types of a key that may not repeat yet, after an evaluation
\* emitting the types now
next_emitted_last(before, now) ==
    IF now = {} THEN before ELSE now

(* ---------------------------------------------------------------------- *)
(* send_discord_alert                                                      *)
(* ---------------------------------------------------------------------- *)
\* send_discord_alert posting a failed alert a second time
send_discord_alert_retrying(found, fail_at) ==
    [ k \in 1..(IF fail_at = 0 THEN Len(found) ELSE fail_at) |->
        [ type |-> found[k].type, ok |-> (fail_at = 0 \/ k < fail_at) ] ]
    \o (IF fail_at = 0 THEN << >>
        ELSE << [ type |-> found[fail_at].type, ok |-> TRUE ] >>)

\* the webhook posts made for alerts when the post of alert number fail_at
\* raises (fail_at = 0: none raises): the handler encloses the whole loop,
\* so the first failure ends it
send_discord_alert(found, fail_at) ==
    [ k \in 1..(IF fail_at = 0 THEN Len(found) ELSE fail_at) |->
        [ type |-> found[k].type, ok |-> (fail_at = 0 \/ k < fail_at) ] ]

\* the alert numbers whose post may raise, 0 for none
FailAt(found) == 0..Len(found)

\* the same while the webhook is down: the first post raises
FailAtFirst(found) == IF found = << >> THEN {0} ELSE {1}

\* alerts_sent += 1 for every post counted twice
alerts_sent_after_doubled(sent, made) ==
    sent + 2 * Cardinality({ k \in 1..Len(made) : made[k].ok })

\* monitor_status['alerts_sent'] after the posts made: += 1 follows every
\* post that did not raise
alerts_sent_after(sent, made) ==
    sent + Cardinality({ k \in 1..Len(made) : made[k].ok })

(* ---------------------------------------------------------------------- *)
(* Observers of the cycles                                                 *)
(* ---------------------------------------------------------------------- *)
\* the thresholds the sheet documents as expected
ExpectedThreshold(t) == 0 <= t /\ t <= 100

\* consecutive in-band evaluations with an alert, counted up to 3
next_in_band_alerts(n, product, current_results, found) ==
    IF /\ ExpectedThreshold(product.drop_threshold)
       /\ current_results # << >>
       /\ in_range(product, lowest_result(current_results).price)
       /\ found # << >>
    THEN Min(n + 1, 3)
    ELSE 0

(* ---------------------------------------------------------------------- *)
(* Initial state: PriceMonitor.__init__ and the module-level status        *)
(* ---------------------------------------------------------------------- *)
Init ==
    /\ price_history = << >>
    /\ monitor_status = [ running      |-> FALSE,
                          total_checks |-> 0,
                          alerts_sent  |-> 0,
                          last_check   |-> 0,
                          next_check   |-> 0 ]
    /\ pc = "start"
    /\ frame = "initial"
    /\ sheet_error = FALSE
    /\ error_event = ""
    /\ search_error = FALSE
    /\ posts = << >>
    /\ in_band_alerts = [key \in Keys |-> 0]
    /\ products = << >>
    /\ results = << >>
    /\ alerts = << >>
    /\ error = ""
    /\ old_history = << >>
    /\ observed_min = [key \in Keys |-> Sentinel]
    /\ emitted_last = [key \in Keys |-> {}]
    /\ request = ""

(* ---------------------------------------------------------------------- *)
(* run: the checks of the configuration                                    *)
(* ---------------------------------------------------------------------- *)
\* run returns when the webhook, the sheet or the API key is not set;
\* otherwise it sets running and calls the initial run_check
Run ==
    /\ pc = "start"
    /\ \E configured \in BOOLEAN :
           IF configured
           THEN /\ monitor_status' = [monitor_status EXCEPT !.running = TRUE]
                /\ pc' = "initial"
           ELSE /\ monitor_status' = monitor_status
                /\ pc' = "returned"
    /\ UNCHANGED << price_history, frame, sheet_error, error_event,
                    search_error, posts, in_band_alerts, products, results,
                    alerts, error, old_history, observed_min, emitted_last,
                    request >>

(* ---------------------------------------------------------------------- *)
(* run_check                                                               *)
(* ---------------------------------------------------------------------- *)
\* sheet_outcome without the call of send_error_alert
sheet_outcome_unreported(sheet, failed) ==
    [ products    |-> IF failed THEN << >> ELSE read_google_sheet(sheet),
      error_event |-> "" ]

\* what read_google_sheet returns and reports: the products of the sheet, or
\* nothing and an error alert when the read took the handler
sheet_outcome(sheet, failed) ==
    [ products    |-> IF failed THEN << >> ELSE read_google_sheet(sheet),
      error_event |-> IF failed THEN "sheet" ELSE "" ]

\* the head of run_check: stamp and count the cycle, read the sheet, return
\* when the list is empty
StartCheck ==
    /\ pc \in {"initial", "sleep"}
    /\ monitor_status.total_checks < MaxChecks
    /\ monitor_status' =
           [monitor_status EXCEPT !.total_checks = @ + 1,
                                  !.last_check = monitor_status.total_checks + 1]
    /\ \E sheet \in Sheets, failed \in BOOLEAN :
         LET out == sheet_outcome(sheet, failed) IN
           /\ (failed => sheet = << >>)
           /\ sheet_error' = failed
           /\ error_event' = out.error_event
           /\ products' = out.products
           /\ IF out.products = << >>
              THEN pc' = "sleep" /\ frame' = "loop"
              ELSE pc' = "product"
                   /\ frame' = (IF pc = "initial" THEN "initial" ELSE "loop")
    /\ UNCHANGED << price_history, search_error, posts, in_band_alerts,
                    results, alerts, error, old_history, observed_min,
                    emitted_last, request >>

\* the loop body for the next product of the list: search the offers, where
\* a failure gives none; if there are any, evaluate them; if alerts come
\* back, send them. The search returns a batch of `batches`; the observers
\* of the alert stream follow the evaluation when `observed`; the webhook
\* answers some posts when `webhook_up` and none otherwise
Evaluation(batches, observed, webhook_up) ==
    /\ pc = "product"
    /\ \E batch \in batches, failed \in BOOLEAN :
         LET product == Head(products)
             product_key == lower(product.name)
             out == check_price_alerts(price_history, product, batch)
         IN  /\ (failed => batch = << >>)
             /\ search_error' = failed
             /\ results' = batch
             /\ old_history' = price_history
             /\ price_history' = out.history
             /\ alerts' = out.alerts
             /\ error' = IF out.raised THEN "ZeroDivisionError" ELSE ""
             /\ \E fail_at \in (IF webhook_up THEN FailAt(out.alerts)
                                 ELSE FailAtFirst(out.alerts)) :
                    LET made == send_discord_alert(out.alerts, fail_at) IN
                      /\ posts' = made
                      /\ monitor_status' =
                             [monitor_status EXCEPT !.alerts_sent =
                                  alerts_sent_after(@, made)]
             /\ observed_min' =
                    IF batch = << >> THEN observed_min
                    ELSE [observed_min EXCEPT ![product_key] =
                              Min(@, lowest_result(batch).price)]
             /\ emitted_last' =
                    IF observed
                    THEN [emitted_last EXCEPT ![product_key] =
                              next_emitted_last(@, Types(out.alerts))]
                    ELSE emitted_last
             /\ in_band_alerts' =
                    IF observed
                    THEN [in_band_alerts EXCEPT ![product_key] =
                              next_in_band_alerts(@, product, batch,
                                                  out.alerts)]
                    ELSE in_band_alerts
    /\ pc' = "evaluated"
    /\ UNCHANGED << frame, sheet_error, error_event, products, request >>

\* the loop body under every price, the alert stream observed
Evaluate == Evaluation(Batches, TRUE, TRUE)

\* the loop body under the prices below 999999 while the webhook is down
EvaluateOrdinary == Evaluation(OrdinaryBatches, FALSE, FALSE)

\* the loop body under the prices below 999999, one offer a search at most
EvaluateDelivery == Evaluation(SingleOfferBatches, FALSE, TRUE)

\* Advance with a failed search ending the cycle
Advance_search_failure_ends_cycle ==
    /\ pc = "evaluated"
    /\ products' = (IF search_error THEN << >> ELSE Tail(products))
    /\ IF search_error \/ Tail(products) = << >>
       THEN /\ pc' = "sleep"
            /\ frame' = "loop"
            /\ monitor_status' =
                   [monitor_status EXCEPT !.next_check =
                                              monitor_status.total_checks]
       ELSE /\ pc' = "product"
            /\ frame' = frame
            /\ monitor_status' = monitor_status
    /\ results' = << >>
    /\ alerts' = << >>
    /\ error' = ""
    /\ search_error' = FALSE
    /\ posts' = << >>
    /\ old_history' = price_history
    /\ UNCHANGED << price_history, sheet_error, error_event, in_band_alerts,
                    observed_min, emitted_last, request >>

\* the loop step; after the last product run_check sets next_check and
\* returns
Advance ==
    /\ pc = "evaluated"
    /\ products' = Tail(products)
    /\ IF Tail(products) = << >>
       THEN /\ pc' = "sleep"
            /\ frame' = "loop"
            /\ monitor_status' =
                   [monitor_status EXCEPT !.next_check =
                                              monitor_status.total_checks]
       ELSE /\ pc' = "product"
            /\ frame' = frame
            /\ monitor_status' = monitor_status
    /\ results' = << >>
    /\ alerts' = << >>
    /\ error' = ""
    /\ search_error' = FALSE
    /\ posts' = << >>
    /\ old_history' = price_history
    /\ UNCHANGED << price_history, sheet_error, error_event, in_band_alerts,
                    observed_min, emitted_last, request >>

\* an exception leaves run_check outside the per-product handler (raised by
\* a statement between two products or in the handler itself): the loop of
\* run catches it, sends an error alert, waits 60 seconds and goes on; the
\* initial run_check is called outside that loop and the exception ends run
Unexpected ==
    /\ pc = "product"
    /\ IF frame = "initial"
       THEN /\ pc' = "dead"
            /\ error_event' = error_event
       ELSE /\ pc' = "sleep"
            /\ error_event' = "unexpected"
    /\ frame' = "loop"
    /\ products' = << >>
    /\ UNCHANGED << price_history, monitor_status, sheet_error, search_error,
                    posts, in_band_alerts, results, alerts, error,
                    old_history, observed_min, emitted_last, request >>

\* KeyboardInterrupt in the thread of run. No handler of run_check catches
\* it. Raised in the loop (in the sleep or in run_check) it reaches the
\* handler that clears running and breaks; raised in the initial check, or
\* in the 60 seconds wait inside the handler of an unexpected error, it
\* leaves run with running still set
Stop ==
    /\ pc \in {"initial", "product", "evaluated", "sleep"}
    /\ \E in_wait \in BOOLEAN :
         /\ in_wait => (pc = "sleep" /\ error_event = "unexpected")
         /\ IF frame = "initial" \/ in_wait
            THEN /\ pc' = "interrupted"
                 /\ monitor_status' = monitor_status
            ELSE /\ pc' = "stopped"
                 /\ monitor_status' =
                        [monitor_status EXCEPT !.running = FALSE]
    /\ frame' = "loop"
    /\ products' = << >>
    /\ results' = << >>
    /\ alerts' = << >>
    /\ error' = ""
    /\ search_error' = FALSE
    /\ posts' = << >>
    /\ old_history' = price_history
    /\ UNCHANGED << price_history, sheet_error, error_event, in_band_alerts,
                    observed_min, emitted_last, request >>

Next == Run \/ StartCheck \/ Evaluate \/ Advance \/ Unexpected \/ Stop

Spec == Init /\ [][Next]_vars

\* the monitor while no search returns a price of 999999 or more, no
\* exception leaves run_check and the webhook is down
NextOrdinary ==
    Run \/ StartCheck \/ EvaluateOrdinary \/ Advance

SpecOrdinary == Init /\ [][NextOrdinary]_vars

\* the monitor while every search returns one offer at most, below 999999,
\* and no exception leaves run_check; the webhook answers or fails
NextDelivery ==
    Run \/ StartCheck \/ EvaluateDelivery \/ Advance

SpecDelivery == Init /\ [][NextDelivery]_vars

(* ---------------------------------------------------------------------- *)
(* The Flask routes of the dashboard                                       *)
(* ---------------------------------------------------------------------- *)
Routes == {"/", "/api/status", "/health"}

\* the variables of the monitor thread
monitor_vars ==
    << price_history, monitor_status, pc, frame, sheet_error, error_event,
       search_error, posts, in_band_alerts, products, results, alerts,
       error, old_history, observed_min, emitted_last >>

\* Request counting the page views in the status dictionary
Request_counting ==
    /\ \E route \in Routes : request' = route
    /\ monitor_status' =
           [monitor_status EXCEPT !.total_checks = IF @ = 0 THEN 1 ELSE @]
    /\ UNCHANGED << price_history, pc, frame, sheet_error, error_event,
                    search_error, posts, in_band_alerts, products, results,
                    alerts, error, old_history, observed_min, emitted_last >>

\* dashboard, api_status and health, served by the web server thread at any
\* moment between two steps of the monitor thread: each reads the status
\* dictionary, answers from what it read, and assigns nothing
Request ==
    /\ \E route \in Routes : request' = route
    /\ UNCHANGED monitor_vars

\* the loop body with one offer a search at most while the webhook is down
EvaluateDashboard == Evaluation(SingleOfferBatches, FALSE, FALSE)

\* the monitor thread and the web server thread
NextDashboard ==
    Run \/ StartCheck \/ EvaluateDashboard \/ Advance \/ Request

SpecDashboard == Init /\ [][NextDashboard]_vars

(* ---------------------------------------------------------------------- *)
(* Vocabulary of the properties                                            *)
(* ---------------------------------------------------------------------- *)
\* an evaluation of the current product has just been made
Evaluated == pc = "evaluated"

\* the product dict handed to that evaluation and its state key
product == Head(products)
product_key == lower(product.name)

\* the minimum price of the evaluated batch
current_price == lowest_result(results).price

\* the state entry of the evaluated product before and after the evaluation
before == StateOf(old_history, product_key)
after == StateOf(price_history, product_key)

\* (L - c) / L * 100 >= t for a recorded lowest price L, false when the
\* quotient is undefined
DropPercentageReached(L, c, t) == L > 0 /\ (L - c) * 100 >= t * L

(* ---------------------------------------------------------------------- *)
(* C1 .. C10                                                               *)
(* ---------------------------------------------------------------------- *)

\* C1: evaluating a product with an empty offer batch returns no alerts,
\* raises nothing and leaves the whole price history as it was: lowest price
\* and last alert type untouched, no state entry created.
C1_EmptyBatchNoOp ==
    (Evaluated /\ results = << >>) =>
        /\ alerts = << >>
        /\ error = ""
        /\ price_history = old_history

\* C1 witness: an empty batch evaluated for a product with a populated state.
C1_Witness ==
    /\ Evaluated
    /\ results = << >>
    /\ product_key \in DOMAIN old_history
    /\ old_history[product_key].last_alert # ""

\* C2 (as claimed): after every evaluation the recorded lowest price of a
\* product equals min(999999, p1, ..., pk) over the batch minima evaluated so
\* far, so it never exceeds the sentinel.
C2_LowestIsMinWithSentinel ==
    \A key \in DOMAIN price_history :
        price_history[key].lowest = observed_min[key]

\* C3: an evaluation that is given last alert type range and a batch whose
\* minimum lies inside [price_min, price_max] emits no range alert.
C3_RangeDebounced ==
    ( /\ Evaluated
      /\ results # << >>
      /\ product.last_alert_type = "range"
      /\ in_range(product, current_price) )
    => "range" \notin Types(alerts)

\* C3 witness: such an evaluation happened, without error, on a state whose
\* stored last alert type is range too, and the state stayed range.
C3_Witness ==
    /\ Evaluated
    /\ results # << >>
    /\ error = ""
    /\ product.last_alert_type = "range"
    /\ before.last_alert = "range"
    /\ in_range(product, current_price)
    /\ after.last_alert = "range"

\* C4 (as claimed): once an alert of a type has been emitted for a product,
\* no alert of that type is emitted for it again before an alert of the
\* other type has been emitted on a later evaluation.
C4_NoRepeatOfType ==
    [][ (pc = "product" /\ pc' = "evaluated") =>
            Types(alerts') \cap emitted_last[product_key] = {} ]_vars

\* C5: the first evaluation of a product (no state entry yet) never emits
\* a drop alert, whatever the prices and the threshold.
C5_NoDropOnFirstEvaluation ==
    (Evaluated /\ product_key \notin DOMAIN old_history)
        => "drop" \notin Types(alerts)

\* C5 witness: a first evaluation with a negative threshold that recorded
\* a price.
C5_Witness ==
    /\ Evaluated
    /\ product_key \notin DOMAIN old_history
    /\ product_key \in DOMAIN price_history
    /\ product.drop_threshold < 0

\* C5 witness for the threshold 0.
C5_WitnessZero ==
    /\ Evaluated
    /\ product_key \notin DOMAIN old_history
    /\ product_key \in DOMAIN price_history
    /\ product.drop_threshold = 0

\* C6 (as claimed): when the minimum price is inside the band, the drop
\* percentage from the recorded lowest price meets the threshold and the
\* last alert type is neither range nor drop, the evaluation returns exactly
\* a range alert followed by a drop alert and the last alert type becomes
\* range.
C6_RangeThenDrop ==
    ( /\ Evaluated
      /\ results # << >>
      /\ in_range(product, current_price)
      /\ product.lowest_price # Sentinel
      /\ DropPercentageReached(product.lowest_price, current_price,
                               product.drop_threshold)
      /\ product.last_alert_type \notin {"range", "drop"} )
    => /\ Len(alerts) = 2
       /\ alerts[1].type = "range"
       /\ alerts[2].type = "drop"
       /\ after.last_alert = "range"

\* C7 (as claimed): the alert evaluation never raises.
C7_NeverRaises == error = ""

\* C8 (as claimed): for a non-empty batch with minimum price c a range alert
\* is emitted if and only if price_min <= c <= price_max and the last alert
\* type is not range, and it carries c as its current price.
C8_RangeRule ==
    (Evaluated /\ results # << >>) =>
        /\ ("range" \in Types(alerts))
               <=> ( in_range(product, current_price)
                     /\ product.last_alert_type # "range" )
        /\ \A k \in 1..Len(alerts) :
               alerts[k].type = "range"
                   => alerts[k].current_price = current_price

\* C9 (as claimed): for a non-empty batch with minimum price c and recorded
\* lowest price L a drop alert is emitted if and only if L is not the
\* sentinel, (L - c) / L * 100 >= drop_threshold and the last alert type is
\* not drop; it carries c, L and that percentage.
C9_DropRule ==
    (Evaluated /\ results # << >>) =>
        /\ ("drop" \in Types(alerts))
               <=> ( /\ product.lowest_price # Sentinel
                     /\ DropPercentageReached(product.lowest_price,
                            current_price, product.drop_threshold)
                     /\ product.last_alert_type # "drop" )
        /\ \A k \in 1..Len(alerts) :
               alerts[k].type = "drop" =>
                   /\ alerts[k].current_price = current_price
                   /\ alerts[k].previous_lowest = product.lowest_price
                   /\ alerts[k].drop_percentage.num
                          = (product.lowest_price - current_price) * 100
                   /\ alerts[k].drop_percentage.den = product.lowest_price

\* C10: after every evaluation the last alert type of the product is the
\* type of the first alert returned, if any, and otherwise what it was
\* before the evaluation.
C10_LastAlertType ==
    Evaluated =>
        after.last_alert = IF alerts # << >>
                           THEN alerts[1].type
                           ELSE before.last_alert

\* C10 witness: no alert fired, the lowest price was lowered and the last
\* alert type, not empty, was kept.
C10_Witness ==
    /\ Evaluated
    /\ results # << >>
    /\ alerts = << >>
    /\ after.lowest < before.lowest
    /\ before.last_alert # ""
    /\ after.last_alert = before.last_alert

\* C10 witness: two alerts returned, the first one remembered.
C10_WitnessTwo ==
    /\ Evaluated
    /\ Len(alerts) = 2
    /\ after.last_alert = alerts[1].type

(* ---------------------------------------------------------------------- *)
(* C11 .. C20                                                              *)
(* ---------------------------------------------------------------------- *)
\* the steps of run_check
StartsCheck ==
    /\ pc \in {"initial", "sleep"}
    /\ pc' \in {"product", "sleep"}
    /\ vars' # vars
Evaluates == pc = "product" /\ pc' = "evaluated"
Returns ==
    \/ StartsCheck /\ pc' = "sleep"
    \/ pc = "evaluated" /\ pc' = "sleep"

\* C11 (as claimed): every evaluation decides on the state left by the most
\* recent evaluation of the same key, the sentinel state if there was none:
\* the lowest price and last alert type it is given are the stored ones.
C11_DecidesOnStoredState ==
    (Evaluated /\ results # << >>) =>
        /\ product.lowest_price = before.lowest
        /\ product.last_alert_type = before.last_alert

\* C12: when a webhook post fails, the state update of the evaluation that
\* produced the alert stays (last alert type = type of the first alert,
\* lowest price = the minimum with the batch minimum) and the failed alert is
\* posted once only: nothing follows the failed post.
C12_FailedDeliveryKeepsState ==
    (Evaluated /\ \E k \in 1..Len(posts) : ~posts[k].ok) =>
        /\ alerts # << >>
        /\ after.last_alert = alerts[1].type
        /\ after.lowest = IF product_key \in DOMAIN old_history
                          THEN Min(before.lowest, current_price)
                          ELSE current_price
        /\ Len(posts) <= Len(alerts)
        /\ \A k \in 1..Len(posts) :
               /\ posts[k].type = alerts[k].type
               /\ ~posts[k].ok => k = Len(posts)

\* C12 witness: a failed post after an evaluation that changed both the
\* lowest price and the last alert type of an existing entry.
C12_Witness ==
    /\ Evaluated
    /\ \E k \in 1..Len(posts) : ~posts[k].ok
    /\ product_key \in DOMAIN old_history
    /\ after.lowest < before.lowest
    /\ after.last_alert # before.last_alert

\* C13 (as claimed): the notifier is invoked once for every alert returned,
\* in the order returned, also for the second alert when the first post
\* fails.
C13_EveryAlertPosted ==
    Evaluated =>
        /\ Len(posts) = Len(alerts)
        /\ \A k \in 1..Len(posts) : posts[k].type = alerts[k].type

\* C14: a failed search gives the product zero offers (no alert, no post,
\* price history unchanged) and the loop goes on to the products that
\* follow in the list.
C14_SearchFailureIsolated ==
    [][ /\ (Evaluates /\ search_error') =>
              /\ results' = << >>
              /\ alerts' = << >>
              /\ posts' = << >>
              /\ error' = ""
              /\ price_history' = price_history
              /\ products' = products
        /\ (pc = "evaluated" /\ search_error /\ pc' # pc) =>
              /\ products' = Tail(products)
              /\ (Tail(products) # << >> => pc' = "product")
      ]_vars

\* C14 witness: the search failed for a product with a stored state while
\* another product of the list is still to come.
C14_Witness ==
    /\ Evaluated
    /\ search_error
    /\ Len(products) > 1
    /\ product_key \in DOMAIN price_history

\* C15: when reading the sheet fails, an error alert is sent, the cycle has
\* no product, the price history does not change and run goes to the sleep
\* before the next cycle, in the initial check as in the loop.
C15_SheetFailure ==
    sheet_error =>
        /\ error_event = "sheet"
        /\ products = << >>
        /\ price_history = old_history
        /\ pc = "sleep"
        /\ frame = "loop"

\* C15 witness: the read failed in a cycle after products had a state.
C15_Witness ==
    /\ pc = "sleep"
    /\ sheet_error
    /\ error_event = "sheet"
    /\ DOMAIN price_history = Keys

\* C15 witness: the read failed in the initial check.
C15_WitnessInitial ==
    /\ pc = "sleep"
    /\ sheet_error
    /\ monitor_status.total_checks = 1

\* C16 (as claimed): no unexpected error of a cycle, the initial one
\* included, ends the monitor loop.
C16_NeverFatal == pc # "dead"

\* C17 (as claimed): for thresholds in 0..100 there are never three
\* consecutive evaluations of a product with the minimum in the band that
\* each emit an alert.
C17_NoAlertOnEveryCycle ==
    \A key \in Keys : in_band_alerts[key] < 3

\* C18: the names "TV" and "tv" read the same state entry, the one of the
\* key "tv"; an evaluation writes under the lowercased keys only and changes
\* no entry but the one of its own key.
C18_KeyedByLowercasedName ==
    [][ /\ StartsCheck =>
              \A k \in 1..Len(products') :
                  products'[k].name \in {"TV", "tv"} =>
                      /\ products'[k].lowest_price
                             = StateOf(price_history, "tv").lowest
                      /\ products'[k].last_alert_type
                             = StateOf(price_history, "tv").last_alert
        /\ Evaluates =>
              /\ DOMAIN price_history' \subseteq Keys
              /\ (product.name \in {"TV", "tv"} /\ results' # << >>
                    /\ error' = "") => "tv" \in DOMAIN price_history'
              /\ \A key \in Keys :
                    (product.name \in {"TV", "tv"} => key # "tv")
                    /\ (product.name = "pc" => key # "pc")
                    => /\ (key \in DOMAIN price_history'
                             <=> key \in DOMAIN price_history)
                       /\ (key \in DOMAIN price_history
                             => price_history'[key] = price_history[key])
      ]_vars

\* C18 witness: the row "TV" was evaluated on the entry "tv" written before,
\* changed it, and the entry "pc" exists beside it.
C18_Witness ==
    /\ Evaluated
    /\ product.name = "TV"
    /\ "tv" \in DOMAIN old_history
    /\ "pc" \in DOMAIN old_history
    /\ price_history["tv"] # old_history["tv"]
    /\ price_history["pc"] = old_history["pc"]

\* C19: the set of state keys only grows and stored entries are never
\* removed: an evaluation keeps every key it found, adds at most its own
\* key, adds it only with offers, and with offers leaves it present; no
\* other step changes the price history.
C19_KeysOnlyGrow ==
    IF Evaluated
    THEN /\ DOMAIN old_history \subseteq DOMAIN price_history
         /\ DOMAIN price_history \ DOMAIN old_history \subseteq {product_key}
         /\ results = << >> => DOMAIN price_history = DOMAIN old_history
         /\ results # << >> => product_key \in DOMAIN price_history
    ELSE price_history = old_history

\* C19 witness: an evaluation added the key "pc" beside the entry "tv",
\* which it kept as it was.
C19_Witness ==
    /\ Evaluated
    /\ DOMAIN old_history = {"tv"}
    /\ DOMAIN price_history = Keys
    /\ price_history["tv"] = old_history["tv"]

\* C20 (as claimed): every run_check counts the cycle once and, when it
\* returns, has set last_check and next_check for that cycle, also with zero
\* products or a failed read of the sheet.
C20_StatusRefreshedEveryCycle ==
    [][ /\ StartsCheck =>
              monitor_status'.total_checks = monitor_status.total_checks + 1
        /\ Returns =>
              /\ monitor_status'.last_check = monitor_status'.total_checks
              /\ monitor_status'.next_check = monitor_status'.total_checks
      ]_vars

(* ---------------------------------------------------------------------- *)
(* C21 .. C29                                                              *)
(* ---------------------------------------------------------------------- *)
\* the product of the scenarios: band 100..150, drop threshold 25
ScenarioConfig(p) ==
    p.price_min = 100 /\ p.price_max = 150 /\ p.drop_threshold = 25

\* C22: with the band 100..150 and the threshold 25, a batch with minimum
\* 120 evaluated on the initial state (lowest 999999, no last alert) emits
\* exactly one range alert and leaves (120, range); a batch with minimum 80
\* evaluated on (120, range) emits exactly one drop alert with previous
\* lowest 120 and percentage 4000 / 120 and leaves (80, drop).
C22_Scenario ==
    (Evaluated /\ results # << >> /\ ScenarioConfig(product)) =>
        /\ ( /\ product_key \notin DOMAIN old_history
             /\ product.lowest_price = Sentinel
             /\ product.last_alert_type = ""
             /\ current_price = 120 )
           => /\ Len(alerts) = 1
              /\ alerts[1].type = "range"
              /\ alerts[1].current_price = 120
              /\ after = [lowest |-> 120, last_alert |-> "range"]
        /\ ( /\ before = [lowest |-> 120, last_alert |-> "range"]
             /\ product.lowest_price = 120
             /\ product.last_alert_type = "range"
             /\ current_price = 80 )
           => /\ Len(alerts) = 1
              /\ alerts[1].type = "drop"
              /\ alerts[1].current_price = 80
              /\ alerts[1].previous_lowest = 120
              /\ alerts[1].drop_percentage = [num |-> 4000, den |-> 120]
              /\ after = [lowest |-> 80, last_alert |-> "drop"]

\* C22 witness: the second step of the scenario has happened.
C22_Witness ==
    /\ Evaluated
    /\ ScenarioConfig(product)
    /\ before = [lowest |-> 120, last_alert |-> "range"]
    /\ product.lowest_price = 120
    /\ product.last_alert_type = "range"
    /\ results # << >>
    /\ current_price = 80
    /\ after = [lowest |-> 80, last_alert |-> "drop"]

\* C22 witness: the first step of the scenario has happened.
C22_WitnessFirst ==
    /\ Evaluated
    /\ ScenarioConfig(product)
    /\ product_key \notin DOMAIN old_history
    /\ results # << >>
    /\ current_price = 120
    /\ after = [lowest |-> 120, last_alert |-> "range"]

\* the least price of a batch and the place of the first offer that has it
MinPrice(batch) ==
    CHOOSE c \in { batch[k].price : k \in 1..Len(batch) } :
        \A k \in 1..Len(batch) : c <= batch[k].price
FirstAt(batch, c) ==
    CHOOSE k \in 1..Len(batch) :
        batch[k].price = c /\ \A j \in 1..(k - 1) : batch[j].price # c

\* C23: every alert of an evaluation carries the minimum price of the batch
\* as current price and, as representative, the first offer in input order
\* that has this price; the two alerts of a two-alert result carry the same
\* representative.
C23_Representative ==
    (Evaluated /\ results # << >>) =>
        \A k \in 1..Len(alerts) :
            /\ alerts[k].current_price = MinPrice(results)
            /\ alerts[k].result = results[FirstAt(results, MinPrice(results))]
            /\ alerts[k].result.price = alerts[k].current_price
            /\ alerts[k].result = alerts[1].result

\* C23 witness: two alerts for a batch whose two offers share the minimum.
C23_Witness ==
    /\ Evaluated
    /\ Len(results) = 2
    /\ results[1].price = results[2].price
    /\ Len(alerts) = 2
    /\ alerts[2].result = results[1]

\* C24: an evaluation that emits an alert leaves a last alert type other
\* than the one it was given; when it was given the stored state, the type
\* of its first alert differs from the stored last alert type, which is the
\* first-alert type of the previous alert-emitting evaluation of the key.
C24_TypesAlternate ==
    (Evaluated /\ alerts # << >>) =>
        /\ after.last_alert # product.last_alert_type
        /\ after.last_alert = alerts[1].type
        /\ product.last_alert_type = before.last_alert
               => alerts[1].type # before.last_alert

\* C24 witness: a drop alert emitted on the stored last alert type range.
C24_Witness ==
    /\ Evaluated
    /\ alerts # << >>
    /\ product.last_alert_type = "range"
    /\ before.last_alert = "range"
    /\ alerts[1].type = "drop"

\* C24 witness: a range alert emitted on the stored last alert type drop.
C24_WitnessRange ==
    /\ Evaluated
    /\ alerts # << >>
    /\ product.last_alert_type = "drop"
    /\ before.last_alert = "drop"
    /\ alerts[1].type = "range"

\* C25: an evaluation returns at most two alerts and at most one of each
\* type, and two only when the last alert type it was given is none; a
\* stored last alert type that is not none never becomes none again, so
\* evaluations given the stored state return two alerts at most once per
\* key.
C25_AtMostTwoAlerts ==
    Evaluated =>
        /\ Len(alerts) <= 2
        /\ \A j, k \in 1..Len(alerts) :
               alerts[j].type = alerts[k].type => j = k
        /\ Len(alerts) = 2 => product.last_alert_type = ""
        /\ Len(alerts) = 2 => after.last_alert # ""
        /\ before.last_alert # "" => after.last_alert # ""

\* C25 witness: two alerts returned on an existing entry without last alert.
C25_Witness ==
    /\ Evaluated
    /\ Len(alerts) = 2
    /\ product_key \in DOMAIN old_history
    /\ before.last_alert = ""
    /\ product.last_alert_type = ""

\* C25 witness: both rules met on the last alert type drop, one alert only.
C25_WitnessOne ==
    /\ Evaluated
    /\ results # << >>
    /\ error = ""
    /\ product.last_alert_type = "drop"
    /\ in_range(product, current_price)
    /\ has_previous(product)
    /\ drop_reached(product, current_price)
    /\ Len(alerts) = 1

\* C26: when the evaluation of a product raises, the price history is left
\* as it was, no alert of the product is returned or posted, also when the
\* range rule was met, and the loop goes on to the products that follow.
C26_RaiseIsolated ==
    [][ /\ (Evaluates /\ error' # "") =>
              /\ price_history' = price_history
              /\ alerts' = << >>
              /\ posts' = << >>
              /\ products' = products
        /\ (pc = "evaluated" /\ error # "" /\ pc' \in {"product", "sleep"}) =>
              /\ products' = Tail(products)
              /\ price_history' = price_history
              /\ (Tail(products) # << >> => pc' = "product")
      ]_vars

\* C26 witness: the division by a recorded lowest price of 0 raised while
\* the range rule was met and another product is still to come.
C26_Witness ==
    /\ Evaluated
    /\ error = "ZeroDivisionError"
    /\ results # << >>
    /\ range_fires(product, current_price)
    /\ Len(products) > 1

\* C27 (as claimed): whenever a drop alert is emitted under a positive
\* threshold, its current price is strictly below its previous lowest and
\* the recorded lowest price after the evaluation is its current price.
C27_DropLowersLowest ==
    (Evaluated /\ product.drop_threshold > 0) =>
        \A k \in 1..Len(alerts) :
            alerts[k].type = "drop" =>
                /\ alerts[k].current_price < alerts[k].previous_lowest
                /\ after.lowest = alerts[k].current_price

\* the monitor loop is alive: run has passed the configuration checks and
\* has neither returned nor been left by an exception
Alive == pc \in {"initial", "product", "evaluated", "sleep"}

\* C28 (as claimed): the flag running is true exactly while the monitor loop
\* is alive: false before the loop starts and when the configuration is
\* missing, true while cycles run, false in every state after the loop has
\* stopped, by a stop signal or by an error.
C28_RunningIffAlive == monitor_status.running <=> Alive

\* a dashboard request is served in the step
Serves == request' # request

\* C21: a dashboard request, at whatever point of the monitor thread it is
\* served, changes neither the status dictionary nor the price history nor
\* any other variable of the monitor thread, and every evaluation decides
\* from the price history, the product and the offers alone, as it does
\* without requests.
C21_DashboardReadOnly ==
    [][ /\ Serves => UNCHANGED monitor_vars
        /\ Evaluates =>
              LET out == check_price_alerts(price_history, product, results')
              IN  /\ alerts' = out.alerts
                  /\ price_history' = out.history
                  /\ request' = request
      ]_vars

\* C21 witness: a request was served between an evaluation that returned
\* alerts and the loop step that follows it.
C21_Witness ==
    /\ Evaluated
    /\ alerts # << >>
    /\ request = "/api/status"
    /\ monitor_status.total_checks > 1

\* C29: alerts_sent never decreases and changes only when alerts are sent:
\* an evaluation adds the number of its posts that did not raise, which is
\* at most the number of alerts it returned and less when a post raised or
\* an alert was not posted after a failure. Starting from 0, alerts_sent is
\* therefore the number of successful posts so far.
C29_AlertsSentCounts ==
    [][ LET sent == monitor_status'.alerts_sent - monitor_status.alerts_sent
            ok == Cardinality({ k \in 1..Len(posts') : posts'[k].ok })
        IN  /\ sent >= 0
            /\ Evaluates =>
                  /\ sent = ok
                  /\ sent <= Len(alerts')
                  /\ sent < Len(alerts') <=>
                        \/ \E k \in 1..Len(posts') : ~posts'[k].ok
                        \/ Len(posts') < Len(alerts')
            /\ ~Evaluates => sent = 0
      ]_vars

\* C29 witness: of two alerts returned the first was delivered and counted,
\* the second failed, after an earlier alert had been counted.
C29_Witness ==
    /\ Evaluated
    /\ Len(alerts) = 2
    /\ Len(posts) = 2
    /\ posts[1].ok
    /\ ~posts[2].ok
    /\ monitor_status.alerts_sent = 2

====
